---- MODULE Spec2Model ----
(***************************************************************************)
(* Model of scripts.js: the constellation background (canvas, particles,   *)
(* animation loop, throttled resize handling) and the application          *)
(* initialisation.                                                         *)
(*                                                                         *)
(* Numbers.  Layout pixels are integers.  Particle coordinates, velocities *)
(* and radii are floats in the source; here they are fixed-point integers  *)
(* counted in 1/Unit of a layout pixel.  Math.random() yields a multiple   *)
(* of 1/RandRes in [0, 1).  window.devicePixelRatio is kept in halves      *)
(* (dpr2 = 2 * ratio; 0 stands for a falsy ratio).                         *)
(***************************************************************************)
EXTENDS Integers, Sequences, FiniteSets

VARIABLES
    innerWidth,      \* window.innerWidth
    scrollHeight,    \* document.documentElement.scrollHeight
    dpr2,            \* 2 * window.devicePixelRatio (0: falsy)
    hidden,          \* document.hidden (page in the background)
    ctxOk,           \* canvas.getContext('2d') returns a context
    seed,            \* state of the Math.random() generator
    appPhase,        \* "loading", "running" (animation started), "crashed"
    ran,             \* initialisers of initializeApp that have completed
    uncaught,        \* an exception escaped initializeApp
    canvas,          \* [width, height, styleW, styleH] of the canvas element
    ctxScale,        \* current scale of the context transform, <<num, den>>
    dots,            \* the dots array
    dotsId,          \* identity of the dots array (one per `dots = []`)
    lastKnownWidth,  \* lastKnownWidth of createConstellationBackground
    inThrottle,      \* inThrottle of the throttled resize handler
    rafPending,      \* animate callbacks pending with requestAnimationFrame
    lastFrame,       \* what the last run of animate drew
    lastOp,          \* the handler that ran last
    frames,          \* frame callbacks delivered so far
    events,          \* environment events delivered so far
    traced,          \* the strokes of drawConnections are kept in strokes
    strokes,         \* the lines stroked by the last run of drawConnections
    fsFlags,         \* vendors whose document.*FullscreenEnabled flag is set
    fsReqEntries,    \* vendors whose request entry point exists on the root
    fsExitEntries,   \* vendors whose exit entry point exists on document
    vibrateOk,       \* navigator.vibrate exists
    fsElement,       \* vendors whose document.*FullscreenElement is non-null
    btnExists,       \* the element #navFullscreen exists
    btnActive,       \* the button carries the class fullscreen-active
    fsListening,     \* initializeFullscreen has registered its listeners
    lastToggle,      \* what the last call of toggleFullscreen did
    scrollY,         \* window.scrollY
    navExists,       \* an element .main-nav exists
    navStyle,        \* the inline style of the navigation element
    navPending,      \* style callbacks pending with requestAnimationFrame
    scrollThrottle   \* inThrottle of the throttled scroll handler

vars == <<innerWidth, scrollHeight, dpr2, hidden, ctxOk, seed, appPhase, ran,
          uncaught, canvas, ctxScale, dots, dotsId, lastKnownWidth,
          inThrottle, rafPending, lastFrame, lastOp, frames, events,
          traced, strokes, fsFlags, fsReqEntries, fsExitEntries, vibrateOk,
          fsElement, btnExists, btnActive, fsListening, lastToggle, scrollY,
          navExists, navStyle, navPending, scrollThrottle>>

envVars == <<innerWidth, scrollHeight, dpr2, hidden>>
appVars == <<appPhase, ran, uncaught>>
canvasVars == <<canvas, ctxScale>>
dotVars == <<dots, dotsId, seed>>
fsEnv == <<fsFlags, fsReqEntries, fsExitEntries, vibrateOk, btnExists>>
fsVars == <<fsFlags, fsReqEntries, fsExitEntries, vibrateOk, fsElement,
            btnExists, btnActive, fsListening, lastToggle>>
navVars == <<scrollY, navExists, navStyle, navPending, scrollThrottle>>

----------------------------------------------------------------------------
(* Bounds of the model *)

MaxFrames == 2
MaxEvents == 2

Widths == {700, 780, 820}
Heights == {101, 2900}
Dprs2 == {0, 3, 6}
Seeds == {0}

(* Fixed-point scale of coordinates and resolution of Math.random() *)
Unit == 100000
RandRes == 10000

----------------------------------------------------------------------------
(* Arithmetic helpers *)

Abs(n) == IF n < 0 THEN -n ELSE n
Min(a, b) == IF a < b THEN a ELSE b
Max(a, b) == IF a > b THEN a ELSE b

(* Math.random(): the k-th draw (k = 0, 1, ...) of a generator in state s,
   as a multiple of 1/RandRes in [0, 1) *)
MathRandom(s, k) == (s + 1229 * k) % RandRes

(* state of the generator after n draws *)
Advance(s, n) == (s + 1229 * n) % RandRes

(* window.devicePixelRatio || 1, in halves *)
DevicePixelRatio2(d2) == IF d2 = 0 THEN 2 ELSE d2

----------------------------------------------------------------------------
(* resizeCanvas *)

(* the canvas after lines 36-41: the backing store is an integer number of
   device pixels (width * dpr truncated), the display size is in CSS pixels *)
(* resizeCanvas with the ratio capped at 2 *)
SizedCanvas_Capped(w, h, d2) ==
    [width  |-> (w * Min(DevicePixelRatio2(d2), 4)) \div 2,
     height |-> (h * Min(DevicePixelRatio2(d2), 4)) \div 2,
     styleW |-> w,
     styleH |-> h]

SizedCanvas(w, h, d2) ==
    [width  |-> (w * DevicePixelRatio2(d2)) \div 2,
     height |-> (h * DevicePixelRatio2(d2)) \div 2,
     styleW |-> w,
     styleH |-> h]

(* assigning canvas.width resets the context transform to the identity;
   ctx.scale(dpr, dpr) then multiplies it by dpr *)
ScaledContext(sc, d2) ==
    LET reset == <<1, 1>>
    IN  <<reset[1] * DevicePixelRatio2(d2), reset[2] * 2>>

(* resizeCanvas sizing the canvas to the viewport width in both directions *)
resizeCanvas_SquareStyle(w, h, d2, sc, ok) ==
    [canvas |-> SizedCanvas(w, w, d2),
     scale  |-> IF ok THEN ScaledContext(sc, d2) ELSE sc,
     threw  |-> ~ok]

(* resizeCanvas: threw is TRUE when ctx is null and ctx.scale raises *)
resizeCanvas(w, h, d2, sc, ok) ==
    [canvas |-> SizedCanvas(w, h, d2),
     scale  |-> IF ok THEN ScaledContext(sc, d2) ELSE sc,
     threw  |-> ~ok]

----------------------------------------------------------------------------
(* Dot *)

(* new Dot(): five draws of Math.random(), starting at draw k *)
NewDot(s, k, w, h) ==
    [x      |-> MathRandom(s, k) * w * (Unit \div RandRes),
     y      |-> MathRandom(s, k + 1) * h * (Unit \div RandRes),
     vx     |-> ((MathRandom(s, k + 2) - RandRes \div 2) * 3 * (Unit \div RandRes)) \div 10,
     vy     |-> ((MathRandom(s, k + 3) - RandRes \div 2) * 3 * (Unit \div RandRes)) \div 10,
     radius |-> (MathRandom(s, k + 4) * 15 * (Unit \div RandRes)) \div 10 + Unit \div 2]

(* Dot.update() without the final clamp (lines 67-68 left out) *)
DotUpdate_NoClamp(d, w, h) ==
    LET x1 == d.x + d.vx
        y1 == d.y + d.vy
    IN  [x      |-> x1,
         y      |-> y1,
         vx     |-> IF x1 < 0 \/ x1 > w * Unit THEN -d.vx ELSE d.vx,
         vy     |-> IF y1 < 0 \/ y1 > h * Unit THEN -d.vy ELSE d.vy,
         radius |-> d.radius]

(* Dot.update() testing the edges after the clamp instead of before *)
DotUpdate_ClampFirst(d, w, h) ==
    LET x1 == Max(0, Min(w * Unit, d.x + d.vx))
        y1 == Max(0, Min(h * Unit, d.y + d.vy))
    IN  [x      |-> x1,
         y      |-> y1,
         vx     |-> IF x1 < 0 \/ x1 > w * Unit THEN -d.vx ELSE d.vx,
         vy     |-> IF y1 < 0 \/ y1 > h * Unit THEN -d.vy ELSE d.vy,
         radius |-> d.radius]

(* Dot.update() losing half of the speed at a bounce *)
DotUpdate_Damped(d, w, h) ==
    LET x1 == d.x + d.vx
        y1 == d.y + d.vy
    IN  [x      |-> Max(0, Min(w * Unit, x1)),
         y      |-> Max(0, Min(h * Unit, y1)),
         vx     |-> IF x1 < 0 \/ x1 > w * Unit THEN -(d.vx \div 2) ELSE d.vx,
         vy     |-> IF y1 < 0 \/ y1 > h * Unit THEN -(d.vy \div 2) ELSE d.vy,
         radius |-> d.radius]

(* Dot.update() under the current window.innerWidth w and scrollHeight h *)
DotUpdate(d, w, h) ==
    LET x1  == d.x + d.vx
        y1  == d.y + d.vy
        vx1 == IF x1 < 0 \/ x1 > w * Unit THEN -d.vx ELSE d.vx
        vy1 == IF y1 < 0 \/ y1 > h * Unit THEN -d.vy ELSE d.vy
    IN  [x      |-> Max(0, Min(w * Unit, x1)),
         y      |-> Max(0, Min(h * Unit, y1)),
         vx     |-> vx1,
         vy     |-> vy1,
         radius |-> d.radius]

----------------------------------------------------------------------------
(* initDots *)

Divisor(w) == IF w <= 768 THEN 8000 ELSE 15000

(* dotCount rounded up instead of down *)
DotCount_Ceil(w, h) == (w * h + Divisor(w) - 1) \div Divisor(w)

DotCount(w, h) == (w * h) \div Divisor(w)

initDots(s, w, h) ==
    [i \in 1..DotCount(w, h) |-> NewDot(s, 5 * (i - 1), w, h)]

----------------------------------------------------------------------------
(* animate *)

(* a frame that skips the update of the dots *)
UpdatedDots_Skip(ds, w, h) == ds

(* dots.forEach(dot => { dot.update(); dot.draw(); }) *)
UpdatedDots(ds, w, h) == [i \in 1..Len(ds) |-> DotUpdate(ds[i], w, h)]

(* what one run of animate draws: the rectangle cleared, in the context's
   coordinates (canvas.width / dpr as a fraction), and one arc per dot *)
FrameDrawn(cv, d2, ds) ==
    [clearW |-> <<cv.width * 2, DevicePixelRatio2(d2)>>,
     clearH |-> <<cv.height * 2, DevicePixelRatio2(d2)>>,
     arcs   |-> Len(ds)]

NoFrame == [clearW |-> <<0, 1>>, clearH |-> <<0, 1>>, arcs |-> 0]

----------------------------------------------------------------------------
(* drawConnections *)

maxDistance == 150

(* Squares of coordinates do not fit the integers of the model checker: a
   square is kept as <<high, low>>, worth high * Base^2 + low, low < Base^2 *)
Base == 10000

Carry(p) == <<p[1] + p[2] \div (Base * Base), p[2] % (Base * Base)>>

(* n * n for 0 <= n < 40000 * Base *)
Square(n) ==
    LET a == n \div Base
        b == n % Base
        c == 2 * a * b
    IN  Carry(<<a * a + c \div Base, (c % Base) * Base + b * b>>)

PairSum(p, q) == Carry(<<p[1] + q[1], p[2] + q[2]>>)

PairLess(p, q) == p[1] < q[1] \/ (p[1] = q[1] /\ p[2] < q[2])

(* the largest r in [lo, hi) with r * r <= v, given lo * lo <= v < hi * hi *)
RECURSIVE RootBetween(_, _, _)
RootBetween(v, lo, hi) ==
    IF hi - lo <= 1 THEN lo
    ELSE LET mid == (lo + hi) \div 2
         IN  IF PairLess(v, Square(mid))
             THEN RootBetween(v, lo, mid)
             ELSE RootBetween(v, mid, hi)

(* Math.sqrt(dx * dx + dy * dy), rounded down to the coordinate grid, for
   dots less than maxDistance apart on both axes; maxDistance (exactly) for
   dots at least maxDistance apart on one axis, which are at least that far
   apart *)
Distance(a, b) ==
    LET dx == Abs(a.x - b.x)
        dy == Abs(a.y - b.y)
    IN  IF dx >= maxDistance * Unit \/ dy >= maxDistance * Unit
        THEN maxDistance * Unit
        ELSE RootBetween(PairSum(Square(dx), Square(dy)), 0,
                         2 * maxDistance * Unit)

(* opacity as a number of OpacityDen-ths *)
OpacityDen == maxDistance * Unit * 10

(* opacity growing with the distance *)
Opacity_Growing(d) == d * 3

(* (1 - distance / maxDistance) * 0.3 *)
Opacity(d) == (maxDistance * Unit - d) * 3

(* the inner loop starting at the dot itself *)
InnerStart_Self(i) == i

(* the first j of the inner loop *)
InnerStart(i) == i + 1

(* the line between dots i and j, when one is stroked *)
Stroke(ds, i, j) ==
    LET d == Distance(ds[i], ds[j])
    IN  IF d < maxDistance * Unit
        THEN <<[i |-> i, j |-> j, d |-> d, alpha |-> Opacity(d),
                from |-> <<ds[i].x, ds[i].y>>, to |-> <<ds[j].x, ds[j].y>>]>>
        ELSE <<>>

RECURSIVE InnerLoop(_, _, _)
InnerLoop(ds, i, j) ==
    IF j > Len(ds) THEN <<>>
    ELSE Stroke(ds, i, j) \o InnerLoop(ds, i, j + 1)

RECURSIVE OuterLoop(_, _)
OuterLoop(ds, i) ==
    IF i > Len(ds) THEN <<>>
    ELSE InnerLoop(ds, i, InnerStart(i)) \o OuterLoop(ds, i + 1)

(* drawConnections: the lines stroked, in order *)
drawConnections(ds) == OuterLoop(ds, 1)

(* the strokes of a run of animate on dots ds, already updated *)
Stroked(tr, ds) == IF tr THEN drawConnections(ds) ELSE <<>>

----------------------------------------------------------------------------
(* throttle *)

(* a wrapper that lets every call through *)
throttle_Always(inT) == [calls |-> TRUE, inThrottle |-> TRUE]

(* a call to the wrapper when its flag is inT: whether func is called, and
   the flag afterwards *)
throttle(inT) == [calls |-> ~inT, inThrottle |-> TRUE]

----------------------------------------------------------------------------
(* initializeScrollHandling *)

ScrollRamp == 150

(* the style of the navigation element as the stylesheet leaves it *)
NoStyle ==
    [kind |-> "unset", background |-> <<>>, border |-> <<>>,
     shadow |-> <<>>, blur |-> <<>>]

(* the style set by the frame callback of handleScroll for scrollDistance sd
   in a window w wide: the alphas of the two gradient stops, of the border
   and of the two shadows, as numbers of (100 * ScrollRamp)-ths, and the blur
   radius as a number of ScrollRamp-ths of a pixel; <<>> is transparent or
   none *)
NavStyle_Always(sd, w) ==
    [kind |-> "ramp",
     background |-> <<95 * sd, 90 * sd>>,
     border |-> <<30 * sd>>,
     shadow |-> <<40 * sd, 10 * sd>>,
     blur |-> IF w > 768 THEN <<25 * sd>> ELSE <<>>]

NavStyle(sd, w) ==
    IF sd > 10
    THEN [kind |-> "ramp",
          background |-> <<95 * sd, 90 * sd>>,
          border |-> <<30 * sd>>,
          shadow |-> <<40 * sd, 10 * sd>>,
          blur |-> IF w > 768 THEN <<25 * sd>> ELSE <<>>]
    ELSE [kind |-> "transparent", background |-> <<>>, border |-> <<>>,
          shadow |-> <<>>, blur |-> <<>>]

(* a frame that requests two callbacks *)
RequestAnimationFrame_Twice(p) == p + 2

(* requestAnimationFrame(animate): one more callback pending *)
RequestAnimationFrame(p) == p + 1

----------------------------------------------------------------------------
(* handleResize *)

(* widthChanged with a threshold of 150 *)
WidthChanged_Wide(cur, last) == Abs(cur - last) > 150

(* widthChanged with a threshold of 50 *)
WidthChanged_Narrow(cur, last) == Abs(cur - last) > 50

WidthChanged(cur, last) == Abs(cur - last) > 100

----------------------------------------------------------------------------
(* Fullscreen *)

(* the vendor variants of the fullscreen API, in the order the code tries them *)
VendorOrder == <<"std", "webkit", "moz", "ms">>
Vendors == {VendorOrder[k] : k \in 1..Len(VendorOrder)}

(* the sets of vendors an environment is drawn from *)
VendorSets == {{}, Vendors, {"webkit", "ms"}} \cup {{v} : v \in Vendors}

(* isFullscreenSupported: some document.*FullscreenEnabled flag is truthy *)
isFullscreenSupported(flags) == \E k \in 1..Len(VendorOrder) : VendorOrder[k] \in flags

(* isInFullscreen: some document.*FullscreenElement is non-null *)
isInFullscreen(el) == \E k \in 1..Len(VendorOrder) : VendorOrder[k] \in el

(* an if / else-if chain over the vendors: the calls made, given the entry
   points that exist *)
FirstEntry(entries) ==
    IF \E k \in 1..Len(VendorOrder) : VendorOrder[k] \in entries
    THEN LET first == CHOOSE k \in 1..Len(VendorOrder) :
                          /\ VendorOrder[k] \in entries
                          /\ \A m \in 1..(k - 1) : VendorOrder[m] \notin entries
         IN  <<VendorOrder[first]>>
    ELSE <<>>

(* a chain of independent ifs: every entry point that exists is called *)
RECURSIVE EveryEntryFrom(_, _)
EveryEntryFrom(entries, k) ==
    IF k > Len(VendorOrder) THEN <<>>
    ELSE (IF VendorOrder[k] \in entries THEN <<VendorOrder[k]>> ELSE <<>>)
             \o EveryEntryFrom(entries, k + 1)

(* requestFullscreen with ifs in place of else-ifs *)
requestFullscreen_EveryEntry(entries) == EveryEntryFrom(entries, 1)

(* requestFullscreen: the request calls made on document.documentElement *)
requestFullscreen(entries) == FirstEntry(entries)

(* exitFullscreen: the exit calls made on document *)
exitFullscreen(entries) == FirstEntry(entries)

(* toggleFullscreen: the alerts, request calls, exit calls and haptic pulses
   of one call *)
toggleFullscreen(flags, el, reqE, exitE, vib) ==
    IF ~isFullscreenSupported(flags)
    THEN [alerts |-> 1, requests |-> <<>>, exits |-> <<>>, vibrates |-> 0]
    ELSE [alerts   |-> 0,
          requests |-> IF isInFullscreen(el) THEN <<>> ELSE requestFullscreen(reqE),
          exits    |-> IF isInFullscreen(el) THEN exitFullscreen(exitE) ELSE <<>>,
          vibrates |-> IF vib THEN 1 ELSE 0]

NoToggle == [alerts |-> 0, requests |-> <<>>, exits |-> <<>>, vibrates |-> 0]

(* updateFullscreenButton that only ever adds the class *)
updateFullscreenButton_AddOnly(exists, active, el) ==
    IF ~exists THEN active ELSE (active \/ isInFullscreen(el))

(* updateFullscreenButton: whether the button carries fullscreen-active
   afterwards *)
updateFullscreenButton(exists, active, el) ==
    IF ~exists THEN active ELSE isInFullscreen(el)

----------------------------------------------------------------------------
(* The initial state: the script is loaded in a narrow, short page and
   DOMContentLoaded has not fired; the other viewports are reached by resize
   events *)

(* the script's own state when it has been loaded: nothing has run *)
LoadedScript ==
    /\ hidden = FALSE
    /\ appPhase = "loading"
    /\ ran = {}
    /\ uncaught = FALSE
    /\ canvas = [width |-> 0, height |-> 0, styleW |-> 0, styleH |-> 0]
    /\ ctxScale = <<1, 1>>
    /\ dots = <<>>
    /\ dotsId = 0
    /\ lastKnownWidth = 0
    /\ inThrottle = FALSE
    /\ rafPending = 0
    /\ lastFrame = NoFrame
    /\ lastOp = "load"
    /\ frames = 0
    /\ events = 0
    /\ strokes = <<>>
    /\ fsListening = FALSE
    /\ lastToggle = NoToggle
    /\ navStyle = NoStyle
    /\ navPending = <<>>
    /\ scrollThrottle = FALSE

(* a browser with every fullscreen variant, not in fullscreen, and a page
   with the fullscreen button *)
PlainFullscreen ==
    /\ fsFlags = Vendors
    /\ fsReqEntries = Vendors
    /\ fsExitEntries = Vendors
    /\ vibrateOk = FALSE
    /\ fsElement = {}
    /\ btnExists = TRUE
    /\ btnActive = FALSE

(* a page at the top with a navigation element *)
PlainNavigation ==
    /\ scrollY = 0
    /\ navExists = TRUE

Init ==
    /\ innerWidth = 700
    /\ scrollHeight = 101
    /\ dpr2 \in Dprs2
    /\ ctxOk \in BOOLEAN
    /\ seed \in Seeds
    /\ traced = FALSE
    /\ LoadedScript
    /\ PlainFullscreen
    /\ PlainNavigation

----------------------------------------------------------------------------
(* initializeApp, the DOMContentLoaded handler.  createConstellationBackground
   runs resizeCanvas, initDots and animate once, then registers the throttled
   resize listener; when ctx is null, ctx.scale in resizeCanvas raises a
   TypeError that nothing catches, and initializeApp ends there. *)
InitializeApp ==
    /\ appPhase = "loading"
    /\ lastOp' = "init"
    /\ LET rc == resizeCanvas(innerWidth, scrollHeight, dpr2, ctxScale, ctxOk)
           fresh == initDots(seed, innerWidth, scrollHeight)
       IN  /\ canvas' = rc.canvas
           /\ ctxScale' = rc.scale
           /\ IF rc.threw
              THEN /\ appPhase' = "crashed"
                   /\ uncaught' = TRUE
                   /\ ran' = {}
                   /\ lastKnownWidth' = innerWidth
                   /\ UNCHANGED <<dots, dotsId, seed, rafPending, lastFrame,
                                  strokes, btnActive, fsListening>>
              ELSE /\ appPhase' = "running"
                   /\ uncaught' = FALSE
                   /\ ran' = {"constellation", "fullscreen", "scroll", "observers"}
                   /\ lastKnownWidth' = innerWidth
                   /\ dots' = UpdatedDots(fresh, innerWidth, scrollHeight)
                   /\ dotsId' = dotsId + 1
                   /\ seed' = Advance(seed, 5 * Len(fresh))
                   /\ lastFrame' = FrameDrawn(rc.canvas, dpr2, fresh)
                   /\ rafPending' = RequestAnimationFrame(rafPending)
                   /\ strokes' = Stroked(traced, dots')
                   /\ fsListening' = btnExists
                   /\ btnActive' = updateFullscreenButton(btnExists, btnActive,
                                                          fsElement)
    /\ UNCHANGED <<envVars, ctxOk, inThrottle, frames, events, traced, fsEnv,
                   fsElement, lastToggle, navVars>>

(* a frame callback: animate *)
Frame ==
    /\ appPhase = "running"
    /\ rafPending > 0
    /\ frames < MaxFrames
    /\ frames' = frames + 1
    /\ lastOp' = "animate"
    /\ dots' = UpdatedDots(dots, innerWidth, scrollHeight)
    /\ lastFrame' = FrameDrawn(canvas, dpr2, dots)
    /\ rafPending' = RequestAnimationFrame(rafPending - 1)
    /\ strokes' = Stroked(traced, dots')
    /\ UNCHANGED <<envVars, ctxOk, appVars, canvasVars, dotsId, seed,
                   lastKnownWidth, inThrottle, events, traced, fsVars, navVars>>

(* handleResize *)
handleResize ==
    LET currentWidth == innerWidth'
        rc == resizeCanvas(innerWidth', scrollHeight', dpr2, ctxScale, ctxOk)
        fresh == initDots(seed, innerWidth', scrollHeight')
    IN  /\ canvas' = rc.canvas
        /\ ctxScale' = rc.scale
        /\ IF WidthChanged(currentWidth, lastKnownWidth)
           THEN /\ lastKnownWidth' = currentWidth
                /\ dots' = fresh
                /\ dotsId' = dotsId + 1
                /\ seed' = Advance(seed, 5 * Len(fresh))
           ELSE UNCHANGED <<lastKnownWidth, dots, dotsId, seed>>
        /\ UNCHANGED <<rafPending, lastFrame>>

(* the viewport is resized to w x h and the resize event reaches the
   throttled listener: handleResize runs unless a call ran within the limit *)
ViewportResize(w, h) ==
    /\ appPhase = "running"
    /\ events < MaxEvents
    /\ events' = events + 1
    /\ innerWidth' = w
    /\ scrollHeight' = h
    /\ inThrottle' = throttle(inThrottle).inThrottle
    /\ IF throttle(inThrottle).calls
       THEN /\ handleResize
            /\ lastOp' = "resize"
       ELSE /\ lastOp' = "dropped"
            /\ UNCHANGED <<canvasVars, dotVars, lastKnownWidth,
                           rafPending, lastFrame>>
    /\ UNCHANGED <<dpr2, hidden, ctxOk, appVars, frames, traced, strokes,
                   fsVars, navVars>>

(* the timer set by the throttle wrapper fires *)
ThrottleTimer ==
    /\ inThrottle
    /\ inThrottle' = FALSE
    /\ lastOp' = "timer"
    /\ UNCHANGED <<envVars, ctxOk, appVars, canvasVars, dotVars,
                   lastKnownWidth, rafPending, lastFrame, frames, events,
                   traced, strokes, fsVars, navVars>>

(* the page content grows or shrinks: no event reaches the script *)
ContentResize(h) ==
    /\ appPhase = "running"
    /\ events < MaxEvents
    /\ h # scrollHeight
    /\ events' = events + 1
    /\ scrollHeight' = h
    /\ lastOp' = "content"
    /\ UNCHANGED <<innerWidth, dpr2, hidden, ctxOk, appVars, canvasVars,
                   dotVars, lastKnownWidth, inThrottle, rafPending, lastFrame,
                   frames,
                   traced, strokes, fsVars, navVars>>

(* the device pixel ratio changes (the window moves to another display) *)
DprChange(d2) ==
    /\ appPhase = "running"
    /\ events < MaxEvents
    /\ d2 # dpr2
    /\ events' = events + 1
    /\ dpr2' = d2
    /\ lastOp' = "dpr"
    /\ UNCHANGED <<innerWidth, scrollHeight, hidden, ctxOk, appVars,
                   canvasVars, dotVars, lastKnownWidth, inThrottle, rafPending,
                   lastFrame, frames,
                   traced, strokes, fsVars, navVars>>

(* the page goes to the background or comes back *)
VisibilityChange ==
    /\ appPhase = "running"
    /\ events < MaxEvents
    /\ events' = events + 1
    /\ hidden' = ~hidden
    /\ lastOp' = "visibility"
    /\ UNCHANGED <<innerWidth, scrollHeight, dpr2, ctxOk, appVars, canvasVars,
                   dotVars, lastKnownWidth, inThrottle, rafPending, lastFrame,
                   frames,
                   traced, strokes, fsVars, navVars>>

(* a click on the fullscreen button: toggleFullscreen *)
FullscreenClick ==
    /\ fsListening
    /\ lastToggle' = toggleFullscreen(fsFlags, fsElement, fsReqEntries,
                                      fsExitEntries, vibrateOk)
    /\ lastOp' = "toggle"
    /\ UNCHANGED <<envVars, ctxOk, appVars, canvasVars, dotVars,
                   lastKnownWidth, inThrottle, rafPending, lastFrame, frames,
                   events, traced, strokes, fsEnv, fsElement, btnActive,
                   fsListening, navVars>>

(* the document enters or leaves fullscreen (a granted request, the Escape
   key, the browser's own controls) and the change event is delivered:
   updateFullscreenButton *)
FullscreenChange(el) ==
    /\ appPhase # "loading"
    /\ el # fsElement
    /\ fsElement' = el
    /\ btnActive' = IF fsListening
                    THEN updateFullscreenButton(btnExists, btnActive, el)
                    ELSE btnActive
    /\ lastOp' = "fschange"
    /\ UNCHANGED <<envVars, ctxOk, appVars, canvasVars, dotVars,
                   lastKnownWidth, inThrottle, rafPending, lastFrame, frames,
                   events, traced, strokes, fsEnv, fsListening, lastToggle,
                   navVars>>

Next ==
    \/ InitializeApp
    \/ Frame
    \/ \E w \in Widths, h \in Heights : ViewportResize(w, h)
    \/ ThrottleTimer
    \/ \E h \in Heights : ContentResize(h)
    \/ \E d2 \in Dprs2 : DprChange(d2)
    \/ VisibilityChange

Spec == Init /\ [][Next]_vars

----------------------------------------------------------------------------
(* The fullscreen toggle: every sampled combination of capability flags and
   entry points, with and without the button; the constellation is
   initialised and left alone *)

FsElements == {{}} \cup {{v} : v \in Vendors}

InitFS ==
    /\ innerWidth = 700
    /\ scrollHeight = 101
    /\ dpr2 = 2
    /\ ctxOk = TRUE
    /\ seed \in Seeds
    /\ traced = FALSE
    /\ LoadedScript
    /\ fsFlags \in VendorSets
    /\ fsReqEntries \in VendorSets
    /\ fsExitEntries \in VendorSets
    /\ vibrateOk \in BOOLEAN
    /\ fsElement = {}
    /\ btnExists \in BOOLEAN
    /\ btnActive \in BOOLEAN
    /\ PlainNavigation

NextFS ==
    \/ InitializeApp
    \/ FullscreenClick
    \/ \E el \in FsElements : FullscreenChange(el)

SpecFS == InitFS /\ [][NextFS]_vars

----------------------------------------------------------------------------
(* Scrolling: the page is scrolled to offsets of ScrollYs; the scroll
   listener is the throttled handleScroll *)

ScrollYs == {0, 5, 10, 11, 75, 150, 300}

MaxNavPending == 2

(* the page is scrolled to y and the scroll event reaches the throttled
   listener: unless a call ran within the limit, handleScroll returns at once
   on a page with no .main-nav, and otherwise requests a frame callback that
   holds scrollDistance *)
Scroll(y) ==
    /\ "scroll" \in ran
    /\ y # scrollY
    /\ Len(navPending) < MaxNavPending
    /\ scrollY' = y
    /\ scrollThrottle' = throttle(scrollThrottle).inThrottle
    /\ IF throttle(scrollThrottle).calls
       THEN /\ lastOp' = "scroll"
            /\ navPending' = IF navExists
                             THEN Append(navPending, Min(y, ScrollRamp))
                             ELSE navPending
       ELSE /\ lastOp' = "scrolldropped"
            /\ UNCHANGED navPending
    /\ UNCHANGED <<envVars, ctxOk, appVars, canvasVars, dotVars,
                   lastKnownWidth, inThrottle, rafPending, lastFrame, frames,
                   events, traced, strokes, fsVars, navExists, navStyle>>

(* the timer set by the throttle wrapper of handleScroll fires *)
ScrollTimer ==
    /\ scrollThrottle
    /\ scrollThrottle' = FALSE
    /\ lastOp' = "scrolltimer"
    /\ UNCHANGED <<envVars, ctxOk, appVars, canvasVars, dotVars,
                   lastKnownWidth, inThrottle, rafPending, lastFrame, frames,
                   events, traced, strokes, fsVars, scrollY, navExists,
                   navStyle, navPending>>

(* the oldest frame callback requested by handleScroll runs *)
NavCallback ==
    /\ navPending # <<>>
    /\ navStyle' = NavStyle(Head(navPending), innerWidth)
    /\ navPending' = Tail(navPending)
    /\ lastOp' = "navframe"
    /\ UNCHANGED <<envVars, ctxOk, appVars, canvasVars, dotVars,
                   lastKnownWidth, inThrottle, rafPending, lastFrame, frames,
                   events, traced, strokes, fsVars, scrollY, navExists,
                   scrollThrottle>>

InitNav ==
    /\ innerWidth \in {700, 820}
    /\ scrollHeight = 101
    /\ dpr2 = 2
    /\ ctxOk = TRUE
    /\ seed \in Seeds
    /\ traced = FALSE
    /\ LoadedScript
    /\ PlainFullscreen
    /\ scrollY = 0
    /\ navExists \in BOOLEAN

NextNav ==
    \/ InitializeApp
    \/ \E y \in ScrollYs : Scroll(y)
    \/ ScrollTimer
    \/ NavCallback

SpecNav == InitNav /\ [][NextNav]_vars

----------------------------------------------------------------------------
(* The connections: pages loaded with different draws of Math.random(), the
   strokes of every run of animate kept *)

DrawSeeds == {293 * k : k \in 0..39}

InitDraw ==
    /\ innerWidth = 700
    /\ scrollHeight = 101
    /\ dpr2 = 2
    /\ ctxOk = TRUE
    /\ seed \in DrawSeeds
    /\ traced = TRUE
    /\ LoadedScript
    /\ PlainFullscreen
    /\ PlainNavigation

NextDraw ==
    \/ InitializeApp
    \/ Frame

SpecDraw == InitDraw /\ [][NextDraw]_vars

----------------------------------------------------------------------------
(* Properties *)

(* a step in which handleResize ran: the throttle wrapper let the call through *)
HandledResize == ~inThrottle /\ inThrottle'

(* a step in which initDots ran *)
Populated == dotsId' # dotsId

(* every dot of ds lies in [0, w] x [0, h] *)
InBounds(ds, w, h) ==
    \A i \in 1..Len(ds) :
        /\ 0 <= ds[i].x /\ ds[i].x <= w * Unit
        /\ 0 <= ds[i].y /\ ds[i].y <= h * Unit

(* C1: right after animate has run Dot.update() on the dots (in a frame
   callback, or in the first run made by the initialisation), every dot's x
   lies in [0, innerWidth] and its y in [0, scrollHeight], whatever frames
   and resizes came before, a shrinking viewport included. *)
C1_ClampAfterUpdate ==
    (appPhase = "running" /\ lastOp \in {"init", "animate"})
        => InBounds(dots, innerWidth, scrollHeight)

(* C1 witness: after a frame, one dot sits clamped on the right edge of a
   viewport narrower than the one the dots were created for, with its
   horizontal velocity turned back, while another dot has moved freely. *)
C1_Witness ==
    /\ lastOp = "animate"
    /\ innerWidth < lastKnownWidth
    /\ \E i \in 1..Len(dots) : dots[i].x = innerWidth * Unit /\ dots[i].vx < 0
    /\ \E j \in 1..Len(dots) : 0 < dots[j].x /\ dots[j].x < innerWidth * Unit

(* C2 as stated: a handled resize at which the width differs from the last
   recorded width by more than 50 repopulates the dots. *)
C2_Original ==
    [][(HandledResize /\ Abs(innerWidth' - lastKnownWidth) > 50)
          => Populated]_vars

(* C2 amended: a handled resize at which the width differs from the last
   recorded width by more than 100 discards the dots and repopulates them
   for the new dimensions, and records the new width. *)
C2_RepopulateOver100 ==
    [][(HandledResize /\ Abs(innerWidth' - lastKnownWidth) > 100)
          => /\ dotsId' = dotsId + 1
             /\ Len(dots') = (innerWidth' * scrollHeight')
                                \div (IF innerWidth' <= 768 THEN 8000 ELSE 15000)
             /\ \A i \in 1..Len(dots') :
                    /\ 0 <= dots'[i].x /\ dots'[i].x < innerWidth' * Unit
                    /\ 0 <= dots'[i].y /\ dots'[i].y < scrollHeight' * Unit
             /\ lastKnownWidth' = innerWidth']_vars

(* C2 witness: a handled resize has repopulated the dots for a width more
   than 100 away from the width of the initialisation. *)
C2_Witness ==
    /\ lastOp = "resize"
    /\ dotsId = 2
    /\ events = 1
    /\ lastKnownWidth = innerWidth
    /\ Len(dots) = DotCount(innerWidth, scrollHeight)

C4_Original ==
    [][Populated
          => /\ Len(dots') = Min(150, (innerWidth' * scrollHeight')
                                \div (IF innerWidth' <= 768 THEN 8000 ELSE 15000))
             /\ Len(dots') <= 150]_vars

(* C4 amended: every population (initial or on resize) leaves exactly
   floor(w * h / divisor) dots, divisor 8000 for w <= 768 and 15000 above,
   for the width and height at population time; there is no cap. *)
C4_CountUncapped ==
    [][Populated
          => Len(dots') = (innerWidth' * scrollHeight')
                             \div (IF innerWidth' <= 768 THEN 8000 ELSE 15000)]_vars

(* C4 witness: a resize has populated more than 150 dots. *)
C4_Witness ==
    /\ dotsId = 2
    /\ lastOp = "resize"
    /\ Len(dots) > 150

(* C5 as stated: a frame callback on a hidden page changes no dot, draws
   nothing and keeps one callback pending; on a visible page it updates
   every dot. *)
C5_Original ==
    [][(frames' # frames)
          => IF hidden
             THEN dots' = dots /\ lastFrame' = lastFrame /\ rafPending' = 1
             ELSE \A i \in 1..Len(dots) :
                      dots'[i] = DotUpdate(dots[i], innerWidth, scrollHeight)]_vars

(* C5 amended: every frame callback, on a hidden page as on a visible one,
   applies the update rule to every dot, clears and draws one arc per dot,
   and leaves exactly one callback pending. *)
C5_FrameAlwaysUpdates ==
    [][(frames' # frames)
          => /\ Len(dots') = Len(dots)
             /\ \A i \in 1..Len(dots) :
                    dots'[i] = DotUpdate(dots[i], innerWidth, scrollHeight)
             /\ lastFrame'.arcs = Len(dots)
             /\ rafPending' = 1]_vars

(* C5 witness: a frame callback has just run on a hidden page with moving
   dots. *)
C5_Witness ==
    /\ hidden
    /\ lastOp = "animate"
    /\ lastFrame.arcs > 0
    /\ \E i \in 1..Len(dots) : dots[i].vx # 0

(* C6 as stated: once initialised, the backing store is the current logical
   size (innerWidth x scrollHeight; the scroll height of the root element is
   never below the viewport height) times min(devicePixelRatio, 2). *)
C6_Original ==
    (appPhase = "running")
        => /\ canvas.width = (innerWidth * Min(DevicePixelRatio2(dpr2), 4)) \div 2
           /\ canvas.height = (scrollHeight * Min(DevicePixelRatio2(dpr2), 4)) \div 2

(* C6 amended: right after each run of resizeCanvas (the initialisation and
   every handled resize) the backing store is innerWidth and scrollHeight, as
   read by that run, times the device pixel ratio (1 when falsy), not capped,
   truncated to whole pixels; the display size is innerWidth x scrollHeight. *)
C6_BackingStoreAfterResize ==
    (lastOp \in {"init", "resize"})
        => /\ canvas.width = (innerWidth * (IF dpr2 = 0 THEN 2 ELSE dpr2)) \div 2
           /\ canvas.height = (scrollHeight * (IF dpr2 = 0 THEN 2 ELSE dpr2)) \div 2
           /\ canvas.styleW = innerWidth
           /\ canvas.styleH = scrollHeight

(* C6 witness: a handled resize at device pixel ratio 3 has left a backing
   store three times the logical size. *)
C6_Witness ==
    /\ lastOp = "resize"
    /\ dpr2 = 6
    /\ canvas.width = 3 * innerWidth
    /\ canvas.height = 3 * scrollHeight

(* C7 as stated: a change of the content height is followed by a resize of
   the canvas, so whenever no timer is pending the canvas covers the full
   scroll height. *)
C7_Original ==
    (appPhase = "running" /\ ~inThrottle) => canvas.styleH = scrollHeight

(* C7 amended: a change of the content height with no viewport resize event
   does not resize the canvas, which keeps the size of the last resizeCanvas
   run; the next handled viewport resize sets the logical height to the
   scroll height, and repopulates only if the width is more than 100 away
   from the recorded width. *)
C7_ContentHeightOnlyOnResize ==
    [][/\ (lastOp' = "content")
             => (scrollHeight' # scrollHeight /\ canvas' = canvas
                 /\ ctxScale' = ctxScale /\ dots' = dots /\ dotsId' = dotsId)
       /\ HandledResize
             => /\ canvas'.styleH = scrollHeight'
                /\ (Abs(innerWidth' - lastKnownWidth) <= 100) => dotsId' = dotsId]_vars

(* C7 witness: the content height has changed and the canvas still has the
   height of the last resizeCanvas run. *)
C7_Witness ==
    /\ lastOp = "content"
    /\ canvas.styleH # scrollHeight
    /\ canvas.styleW = innerWidth

(* C8: after a burst of resize events the handler has run for the last one:
   once the throttle timer has fired, the canvas has the final viewport
   width. *)
C8_TrailingEdge ==
    (appPhase = "running" /\ ~inThrottle) => canvas.styleW = innerWidth

(* C9: once the initialisation has succeeded, exactly one animate callback
   is pending between callbacks, whatever frames and resizes have run. *)
C9_OneFramePending ==
    (appPhase = "running") => rafPending = 1

(* C9 witness: two frame callbacks have run, the last one after a handled
   resize whose timer is still pending, and one callback is pending. *)
C9_Witness ==
    /\ appPhase = "running"
    /\ lastOp = "animate"
    /\ frames >= 2
    /\ inThrottle
    /\ rafPending = 1

(* C10: when getContext returns null, createConstellationBackground raises
   no error, makes no dots and requests no frame, and initializeApp runs the
   fullscreen, scroll and observer initialisers. *)
C10_NullContextGraceful ==
    (appPhase # "loading" /\ ~ctxOk)
        => /\ ~uncaught
           /\ dots = <<>>
           /\ rafPending = 0
           /\ {"fullscreen", "scroll", "observers"} \subseteq ran

(* C11 as stated: a call of toggleFullscreen is an alert and nothing else
   iff no capability flag is set, one request iff supported and not in
   fullscreen, one exit iff supported and in fullscreen. *)
C11_Original ==
    (lastOp = "toggle")
        => /\ (lastToggle.alerts = 1 /\ lastToggle.requests = <<>>
               /\ lastToggle.exits = <<>> /\ lastToggle.vibrates = 0)
                  <=> (fsFlags = {})
           /\ (Len(lastToggle.requests) = 1) <=> (fsFlags # {} /\ fsElement = {})
           /\ (Len(lastToggle.exits) = 1) <=> (fsFlags # {} /\ fsElement # {})

(* C11 amended: a call of toggleFullscreen is an alert and nothing else iff
   no capability flag is set; with a flag set it makes no alert, exactly one
   request iff the document is not in fullscreen and some request entry point
   exists, exactly one exit iff it is in fullscreen and some exit entry point
   exists, never both, and nothing but the haptic pulse when the entry point
   it needs is missing. *)
C11_ToggleActions ==
    (lastOp = "toggle")
        => /\ (lastToggle.alerts = 1 /\ lastToggle.requests = <<>>
               /\ lastToggle.exits = <<>> /\ lastToggle.vibrates = 0)
                  <=> (fsFlags = {})
           /\ (fsFlags # {}) => lastToggle.alerts = 0
           /\ Len(lastToggle.requests)
                 = (IF fsFlags # {} /\ fsElement = {} /\ fsReqEntries # {}
                    THEN 1 ELSE 0)
           /\ Len(lastToggle.exits)
                 = (IF fsFlags # {} /\ fsElement # {} /\ fsExitEntries # {}
                    THEN 1 ELSE 0)
           /\ lastToggle.vibrates = (IF fsFlags # {} /\ vibrateOk THEN 1 ELSE 0)

(* C11 witness: with a capability flag set and no request entry point, a
   call outside fullscreen has requested nothing and only pulsed. *)
C11_Witness ==
    /\ lastOp = "toggle"
    /\ fsFlags # {}
    /\ fsElement = {}
    /\ fsReqEntries = {}
    /\ lastToggle = [alerts |-> 0, requests |-> <<>>, exits |-> <<>>,
                     vibrates |-> 1]

(* C12: when the button exists and initializeFullscreen has run, after every
   fullscreen change the button carries fullscreen-active iff the document
   is in fullscreen. *)
C12_ButtonInSync ==
    (btnExists /\ "fullscreen" \in ran) => (btnActive <=> (fsElement # {}))

(* C12 witness: the document has left fullscreen again, by a change the
   button did not cause, and the button has lost the class. *)
C12_Witness ==
    /\ btnExists
    /\ "fullscreen" \in ran
    /\ lastOp = "fschange"
    /\ lastToggle = NoToggle
    /\ fsElement = {}
    /\ ~btnActive
    /\ fsReqEntries = {}

(* a state right after a run of animate whose strokes were kept *)
DrawnState == traced /\ appPhase = "running" /\ lastOp \in {"init", "animate"}

(* the squared distance between the points p and q *)
SquaredDistance(p, q) ==
    PairSum(Square(Abs(p[1] - q[1])), Square(Abs(p[2] - q[2])))

(* the points p and q are less than m pixels apart *)
CloserThan(p, q, m) == PairLess(SquaredDistance(p, q), Square(m * Unit))

Position(d) == <<d.x, d.y>>

(* C13: after a run of animate, every line stroked joins two points whose
   distance d (on the coordinate grid) is below 150, with opacity
   (1 - d/150) x 0.3, which is above 0 and at most 0.3; of two lines the one
   between the closer points has the strictly larger opacity; the opacity at
   d = 0 is 0.3; and no line joins two dots 150 or more apart. *)
C13_OpacityByDistance ==
    DrawnState
        => /\ OpacityDen = 10 * 150 * Unit
           /\ Opacity(0) * 10 = 3 * OpacityDen
           /\ \A k \in 1..Len(strokes) :
                  LET s == strokes[k]
                      sq == SquaredDistance(s.from, s.to)
                  IN  /\ ~PairLess(sq, Square(s.d))
                      /\ PairLess(sq, Square(s.d + 1))
                      /\ s.d < 150 * Unit
                      /\ s.alpha = 3 * (150 * Unit - s.d)
                      /\ 0 < s.alpha /\ s.alpha * 10 <= 3 * OpacityDen
           /\ \A k, m \in 1..Len(strokes) :
                  strokes[k].d < strokes[m].d
                      => strokes[k].alpha > strokes[m].alpha
           /\ \A i, j \in 1..Len(dots) :
                  ~CloserThan(Position(dots[i]), Position(dots[j]), 150)
                      => ~\E k \in 1..Len(strokes) :
                             strokes[k].i = i /\ strokes[k].j = j

(* C13 witness: a frame has stroked a line between two dots less than 60
   apart and a fainter one between two dots more than 100 apart, and has
   left two dots 150 or more apart unconnected. *)
C13_Witness ==
    /\ DrawnState
    /\ lastOp = "animate"
    /\ \E k, m \in 1..Len(strokes) :
           /\ strokes[k].d < 60 * Unit
           /\ strokes[m].d > 100 * Unit
           /\ strokes[k].alpha > strokes[m].alpha
    /\ \E i, j \in 1..Len(dots) :
           ~CloserThan(Position(dots[i]), Position(dots[j]), 150)

(* C17: after a run of animate, the lines stroked are, in loop order and
   once each, exactly the pairs i < j of distinct dots whose distance is
   strictly below 150, each line drawn between the positions the two dots
   have after the update of that same run; no line joins a dot to itself and
   no pair has two lines. *)
C17_PairsOnce ==
    DrawnState
        => /\ \A k \in 1..Len(strokes) :
                  /\ strokes[k].i \in 1..Len(dots)
                  /\ strokes[k].j \in 1..Len(dots)
                  /\ strokes[k].i < strokes[k].j
                  /\ strokes[k].from = Position(dots[strokes[k].i])
                  /\ strokes[k].to = Position(dots[strokes[k].j])
           /\ \A k, m \in 1..Len(strokes) :
                  k < m => \/ strokes[k].i < strokes[m].i
                           \/ /\ strokes[k].i = strokes[m].i
                              /\ strokes[k].j < strokes[m].j
           /\ \A i, j \in 1..Len(dots) :
                  i < j
                      => ((\E k \in 1..Len(strokes) :
                               strokes[k].i = i /\ strokes[k].j = j)
                            <=> CloserThan(Position(dots[i]),
                                           Position(dots[j]), 150))

(* C17 witness: a frame has moved the dots, then stroked several lines, two
   of them from the same dot, and left a pair of dots unconnected. *)
C17_Witness ==
    /\ DrawnState
    /\ lastOp = "animate"
    /\ frames >= 1
    /\ \E i \in 1..Len(dots) : dots[i].vx # 0
    /\ \E k, m \in 1..Len(strokes) :
           k # m /\ strokes[k].i = strokes[m].i
    /\ \E i, j \in 1..Len(dots) :
           /\ i < j
           /\ ~\E k \in 1..Len(strokes) : strokes[k].i = i /\ strokes[k].j = j

(* the alphas a style gives the background, the border and the shadow of
   the navigation element, as numbers of (100 * ScrollRamp)-ths *)
AppliedAlphas(st) ==
    IF st.kind = "ramp"
    THEN <<st.background[1], st.border[1], st.shadow[1]>>
    ELSE <<0, 0, 0>>

(* a step in which handleScroll ran *)
HandledScroll == lastOp' = "scroll" /\ navExists

(* a step in which a frame callback of handleScroll ran *)
StyledNav == lastOp' = "navframe"

(* C14 as stated: the frame callback of a scroll handled at offset y gives
   background, border and shadow their full alphas (0.95, 0.3, 0.4) times
   min(y, 150) / 150, for every y >= 0. *)
C14_Original ==
    [][/\ HandledScroll
          => navPending' = Append(navPending, Min(scrollY', 150))
       /\ StyledNav
          => LET sd == Head(navPending)
             IN  AppliedAlphas(navStyle') = <<95 * sd, 30 * sd, 40 * sd>>]_vars

(* C14 amended: a scroll handled at offset y requests one frame callback
   holding min(y, 150); when it runs, for min(y, 150) > 10 it gives
   background, border and shadow their full alphas (0.95, 0.3, 0.4) times
   min(y, 150) / 150, and for y <= 10 it makes the navigation element
   transparent with no shadow and no blur. *)
C14_RampAbove10 ==
    [][/\ HandledScroll
          => navPending' = Append(navPending, Min(scrollY', 150))
       /\ StyledNav
          => LET sd == Head(navPending)
             IN  IF sd > 10
                 THEN /\ navStyle'.kind = "ramp"
                      /\ AppliedAlphas(navStyle')
                            = <<95 * sd, 30 * sd, 40 * sd>>
                 ELSE /\ navStyle'.kind = "transparent"
                      /\ navStyle'.background = <<>>
                      /\ navStyle'.border = <<>>
                      /\ navStyle'.shadow = <<>>
                      /\ navStyle'.blur = <<>>]_vars

(* C14 witness: the page is 5 pixels down, the callback of the scroll to
   that offset has run, its timer has fired, and the navigation element is
   transparent. *)
C14_Witness ==
    /\ lastOp = "navframe"
    /\ scrollY = 5
    /\ navPending = <<>>
    /\ ~scrollThrottle
    /\ navStyle.kind = "transparent"

(* the velocity component v of a dot at coordinate c after Dot.update in a
   dimension of dim pixels, as the bounce rule has it *)
Bounced(c, v, dim) == IF c + v < 0 \/ c + v > dim * Unit THEN -v ELSE v

(* C15: in a frame callback, for every dot and each axis on its own: when
   the coordinate plus the velocity lies outside [0, dimension] the velocity
   component becomes its negation (one flip), and when it lies inside the
   component is unchanged. *)
C15_BounceFlipsOnce ==
    [][(frames' # frames)
          => \A i \in 1..Len(dots) :
                 /\ dots'[i].vx = Bounced(dots[i].x, dots[i].vx, innerWidth)
                 /\ dots'[i].vy = Bounced(dots[i].y, dots[i].vy, scrollHeight)]_vars

(* C15 witness: a frame callback has left one dot on an edge of the
   viewport moving away from it with a non-zero speed, while another dot
   strictly inside the viewport moves on. *)
C15_Witness ==
    /\ lastOp = "animate"
    /\ \E i \in 1..Len(dots) :
           \/ dots[i].x = 0 /\ dots[i].vx > 0
           \/ dots[i].x = innerWidth * Unit /\ dots[i].vx < 0
           \/ dots[i].y = 0 /\ dots[i].vy > 0
           \/ dots[i].y = scrollHeight * Unit /\ dots[i].vy < 0
    /\ \E j \in 1..Len(dots) :
           /\ 0 < dots[j].x /\ dots[j].x < innerWidth * Unit
           /\ 0 < dots[j].y /\ dots[j].y < scrollHeight * Unit
           /\ dots[j].vx # 0

(* C19: a frame callback leaves the dots array the one it was (no
   repopulation, the same number of dots) and, for every dot, leaves the
   radius and the magnitudes of vx and vy as they were: only positions and
   the signs of velocity components change. *)
C19_FrameKeepsDots ==
    [][(frames' # frames)
          => /\ dotsId' = dotsId
             /\ Len(dots') = Len(dots)
             /\ \A i \in 1..Len(dots) :
                    /\ dots'[i].radius = dots[i].radius
                    /\ Abs(dots'[i].vx) = Abs(dots[i].vx)
                    /\ Abs(dots'[i].vy) = Abs(dots[i].vy)]_vars

(* C19 witness: two frame callbacks have run, and the last one has turned
   back a dot on the right or bottom edge of the viewport and moved on
   another dot with a non-zero speed. *)
C19_Witness ==
    /\ lastOp = "animate"
    /\ frames >= 2
    /\ \E i \in 1..Len(dots) :
           \/ dots[i].x = innerWidth * Unit /\ dots[i].vx < 0
           \/ dots[i].y = scrollHeight * Unit /\ dots[i].vy < 0
    /\ \E j \in 1..Len(dots) :
           /\ dots[j].x < innerWidth * Unit
           /\ dots[j].vx # 0 /\ dots[j].vy # 0

(* the rectangle cleared by the last run of animate, mapped to device
   pixels by the context transform sc, covers a backing store of cv *)
CoversSurface(fr, sc, cv) ==
    /\ fr.clearW[1] * sc[1] >= cv.width * fr.clearW[2] * sc[2]
    /\ fr.clearH[1] * sc[1] >= cv.height * fr.clearH[2] * sc[2]

(* C16: right after a run of animate, the rectangle it cleared (canvas.width
   / dpr by canvas.height / dpr, with dpr read in that run), under the
   transform in force (the scale set by the last resizeCanvas), covers the
   whole backing store, whatever resizes and device-pixel-ratio changes came
   before. *)
C16_ClearsWholeSurface ==
    (appPhase = "running" /\ lastOp \in {"init", "animate"})
        => CoversSurface(lastFrame, ctxScale, canvas)

(* a step in which the throttled scroll listener was called *)
ScrollCall == lastOp' \in {"scroll", "scrolldropped"}

(* C18: for handleScroll wrapped by throttle: the first call runs it; a call
   runs it exactly when no run has been made since the last firing of the
   timer, and starts the window; the window is closed by the firing of the
   timer and by nothing else, so between two runs the timer of the earlier
   one has fired; a call inside the window changes nothing but the scroll
   offset (it requests no frame and is not kept for later), and the firing
   of the timer runs nothing. *)
C18_ThrottleWindow ==
    [][/\ (ScrollCall /\ lastOp \in {"load", "init"}) => lastOp' = "scroll"
       /\ ScrollCall => /\ (lastOp' = "scroll") <=> ~scrollThrottle
                        /\ scrollThrottle'
       /\ (scrollThrottle /\ ~scrollThrottle') => lastOp' = "scrolltimer"
       /\ (lastOp' = "scrolldropped")
             => navPending' = navPending /\ navStyle' = navStyle
       /\ (lastOp' = "scrolltimer")
             => navPending' = navPending /\ navStyle' = navStyle]_vars

(* C18 witness: a scroll event has been dropped inside the window of a
   handled one, whose frame callback is still pending and holds another
   offset than the current one. *)
C18_Witness ==
    /\ lastOp = "scrolldropped"
    /\ scrollThrottle
    /\ Len(navPending) = 1
    /\ navPending[1] # Min(scrollY, 150)

(* no scroll timer and no frame callback of handleScroll is pending, on a
   page with a navigation element that has been scrolled *)
ScrollSettled ==
    /\ "scroll" \in ran
    /\ navExists
    /\ lastOp \notin {"load", "init"}
    /\ ~scrollThrottle
    /\ navPending = <<>>

(* C20: once scroll events have been delivered and every timer and frame
   callback they started has run, the style of the navigation element is the
   one computed from the current scroll offset. *)
C20_StyleOfFinalOffset ==
    ScrollSettled => navStyle = NavStyle(Min(scrollY, 150), innerWidth)

====
